---- MODULE Spec2Model ----
(***************************************************************************)
(* The Organization, Outlet, Order, LaundryItem, OrderPayment,             *)
(* DispatchRequest, ItemHandover, DefectReport, CustomerProfile,           *)
(* PaymentDetail and Employee records of src/api/models.py as the tables   *)
(* the admin site of src/api/admin.py edits, and the UserManager of        *)
(* src/accounts/models.py.  Every model is                                 *)
(* registered with the default ModelAdmin, so the operations on a table    *)
(* are its add, change and delete views: a validated form, then            *)
(* Model.save() or Model.delete().  Money is counted in hundredths         *)
(* (DecimalField, decimal_places=2); a nullable field holds NULL.          *)
(***************************************************************************)
EXTENDS Integers, Sequences, FiniteSets, TLC

\* ---------------------------------------------------------------- bounds
MaxOrders   == 2    \* Order rows ever inserted
MaxItems    == 2    \* LaundryItem rows ever inserted
MaxPayments == 2    \* OrderPayment rows ever inserted
MaxQuantity == 2    \* largest quantity typed into a form
MaxTime     == 1    \* datetimes an editor can type are 1..MaxTime
MaxOrgs     == 2    \* Organization rows ever inserted
MaxUsers    == 2    \* User rows ever inserted
MaxDispatches == 2  \* DispatchRequest rows ever inserted
MaxHandovers == 2   \* ItemHandover rows ever inserted
MaxDefects  == 2    \* DefectReport rows ever inserted
MaxRequests == 2    \* change-view requests in flight at once
MaxProfiles == 1    \* CustomerProfile rows ever inserted
MaxPaymentDetails == 1  \* PaymentDetail rows ever inserted
MaxEmployees == 1   \* Employee rows ever inserted
MaxOutlets  == 1    \* Outlet rows ever inserted

\* ------------------------------------------------------- field vocabulary
NULL == 0

max_digits == 10

ORDER_STATUS_CHOICES ==
    << "pending", "received", "awaiting_pickup", "in_transit_to_factory",
       "received_at_factory", "in_processing", "qc_packaging",
       "awaiting_return_dispatch", "in_transit_to_outlet", "received_at_outlet",
       "ready_for_pickup", "completed", "cancelled", "on_hold" >>

PAYMENT_STATUS_CHOICES == << "pending", "partial", "paid", "refunded" >>

ITEM_STATUS_CHOICES ==
    << "received", "awaiting_wash", "in_washing", "washing_complete",
       "awaiting_dry", "in_drying", "drying_complete", "awaiting_iron",
       "in_ironing", "ironing_complete", "awaiting_qc", "in_qc", "qc_passed",
       "qc_failed", "awaiting_package", "packaged", "awaiting_dispatch_return",
       "in_transit_to_outlet", "received_at_outlet", "ready_for_pickup",
       "picked_up", "returned_to_wash", "returned_to_dry", "returned_to_iron",
       "damaged" >>

\* DispatchRequest.STATUS_CHOICES
STATUS_CHOICES == << "pending", "accepted", "in_transit", "completed", "cancelled" >>

\* ItemHandover.STAGE_CHOICES
STAGE_CHOICES ==
    << "washing", "drying", "ironing", "qc", "packaging", "outlet_return",
       "factory_intake" >>

\* The empty value of a nullable CharField or TextField.
None == "None"

\* CustomerProfile.PAYMENT_METHOD_CHOICES
PAYMENT_METHOD_CHOICES == << "card", "mobile_money", "cash" >>

\* PaymentDetail.PAYMENT_TYPE_CHOICES
PAYMENT_TYPE_CHOICES == << "bank", "mobile_money" >>

\* PaymentDetail.BANK_CHOICES and MM_NETWORK_CHOICES
BANK_CHOICES == << "calbank", "gt_bank", "stanbic" >>

MM_NETWORK_CHOICES == << "mtn", "vodafone", "airtel_tigo" >>

\* The key Django files an error under that is raised without a field.
NON_FIELD_ERRORS == "__all__"

\* A time of day is << hour, minute, second >>; a TimeField left blank holds
\* NoTime.  Every time of day is true in Python, midnight included.
NoTime == << >>

\* A nullable small integer left blank, where 0 is a value of its own.
Unset == -1

\* Python's truth of a text value: None and the empty string are false.
Truthy(text) == text # None /\ text # ""

Range(s) == { s[k] : k \in 1..Len(s) }

Abs(n) == IF n < 0 THEN -n ELSE n

RECURSIVE NumDigits(_)
NumDigits(n) == IF n < 10 THEN 1 ELSE 1 + NumDigits(n \div 10)

\* DecimalField(max_digits=10, decimal_places=2): the value, in hundredths,
\* has at most max_digits digits; the sign is free.
DecimalField(v) == NumDigits(Abs(v)) <= max_digits

\* PositiveIntegerField
PositiveIntegerField(n) == n >= 0

\* DateTimeField(null=True, blank=True)
Datetimes == 1..MaxTime

\* ------------------------------------------------------------------ state
VARIABLES
    orders,     \* Order table: pk -> row
    items,      \* LaundryItem table: pk -> row
    payments,   \* OrderPayment table: pk -> row
    seq,        \* last pk handed out by each table's AutoField
    organizations,  \* Organization table: pk -> row
    users,      \* User table: pk -> row
    dispatches, \* DispatchRequest table: pk -> row, the items relation inlined
    handovers,  \* ItemHandover table: pk -> row
    defects,    \* DefectReport table: pk -> row
    requests,   \* change-view requests of LaundryItem: id -> position and form
    outlets,    \* Outlet table: pk -> row
    profiles,   \* CustomerProfile table: pk -> row
    payment_details, \* PaymentDetail table: pk -> row
    employees,  \* Employee table: pk -> row
    response    \* what the last add view of the three tables above answered

vars == << orders, items, payments, seq, organizations, users, dispatches,
           handovers, defects, requests, outlets, profiles, payment_details,
           employees, response >>

\* The columns of each table that the operations below read or write.
Order ==
    [ organization : Nat \ {0}, customer : Nat, outlet : Nat,
      bag_number : STRING, invoice_number : STRING,
      order_status : Range(ORDER_STATUS_CHOICES),
      payment_status : Range(PAYMENT_STATUS_CHOICES),
      completed_at : {NULL} \cup Datetimes,
      total_amount : Int, amount_paid : Int ]

LaundryItem ==
    [ organization : Nat \ {0}, order : Nat \ {0}, unit_price : Int, quantity : Nat, amount : Int,
      current_stage : Range(ITEM_STATUS_CHOICES) ]

OrderPayment == [ organization : Nat \ {0}, order : Nat \ {0}, amount : Int ]

Outlet == [ organization : Nat \ {0} ]

DispatchRequest ==
    [ organization : Nat \ {0}, items : SUBSET (Nat \ {0}),
      status : Range(STATUS_CHOICES),
      accepted_at : {NULL} \cup Datetimes, completed_at : {NULL} \cup Datetimes ]

ItemHandover ==
    [ organization : Nat \ {0}, item : Nat \ {0},
      from_stage : {None} \cup Range(STAGE_CHOICES), to_stage : Range(STAGE_CHOICES),
      handed_over_at : Nat \ {0} ]

DefectReport ==
    [ organization : Nat \ {0}, item : Nat \ {0}, resolved_flag : BOOLEAN,
      resolved_by : Nat, resolved_at : {NULL} \cup Datetimes, resolution_notes : STRING ]

User ==
    [ email : [ local : STRING, domain : STRING ], username : STRING,
      organization : Nat,
      is_staff : BOOLEAN, is_superuser : BOOLEAN, is_active : BOOLEAN ]

TypeOK ==
    /\ \A o \in DOMAIN orders :
           /\ orders[o] \in Order
           /\ orders[o].customer \in {NULL} \cup DOMAIN users
           /\ orders[o].outlet \in {NULL} \cup DOMAIN outlets
    /\ \A t \in DOMAIN outlets :
           outlets[t] \in Outlet /\ outlets[t].organization \in DOMAIN organizations
    /\ \A i \in DOMAIN items :
           /\ items[i] \in LaundryItem
           /\ items[i].order \in DOMAIN orders
           /\ items[i].organization \in DOMAIN organizations
    /\ \A p \in DOMAIN payments :
           payments[p] \in OrderPayment /\ payments[p].order \in DOMAIN orders
    /\ \A d \in DOMAIN dispatches :
           /\ dispatches[d].organization \in DOMAIN organizations
           /\ dispatches[d].items \subseteq DOMAIN items
           /\ dispatches[d].status \in Range(STATUS_CHOICES)
    /\ \A u \in DOMAIN users :
           users[u] \in User /\ users[u].organization \in {NULL} \cup DOMAIN organizations
    /\ \A h \in DOMAIN handovers :
           handovers[h] \in ItemHandover /\ handovers[h].item \in DOMAIN items
    /\ \A d \in DOMAIN defects :
           /\ defects[d] \in DefectReport
           /\ defects[d].item \in DOMAIN items
           /\ defects[d].resolved_by \in {NULL} \cup DOMAIN users
    /\ DOMAIN orders \subseteq 1..seq.orders
    /\ DOMAIN items \subseteq 1..seq.items
    /\ DOMAIN payments \subseteq 1..seq.payments

\* Drop the rows whose pk is in gone.
Without(table, gone) == [ pk \in DOMAIN table \ gone |-> table[pk] ]

Insert(table, pk, row) ==
    [ k \in DOMAIN table \cup {pk} |-> IF k = pk THEN row ELSE table[k] ]

\* Before any form of CustomerProfile, PaymentDetail or Employee was submitted.
NoResponse == [ view |-> "none", form |-> << >>, errors |-> {} ]

\* A request that holds no form.
Idle == [ pc |-> "idle" ]

\* ----------------------------------------------------------- Organization
\* billing_status is the one column with a default; nothing here reads the rest.
OrganizationDefaults == [ billing_status |-> "active" ]

\* admin add view of Organization
AdminAddOrganization(f) ==
    /\ seq.organizations < MaxOrgs
    /\ organizations' = Insert(organizations, seq.organizations + 1, f)
    /\ seq' = [seq EXCEPT !.organizations = @ + 1]
    /\ UNCHANGED << orders, items, payments, users, dispatches, handovers,
                    defects, requests >>
    /\ UNCHANGED << outlets, profiles, payment_details, employees, response >>

\* ------------------------------------------------------------------ Order
\* Order.amount_outstanding (a property, not a column)
amount_outstanding_swapped(o) == o.amount_paid - o.total_amount

amount_outstanding(o) == o.total_amount - o.amount_paid

\* The fields of Order the admin form cleans (foreign keys, required text,
\* choices, decimals).
OrderForm(f) ==
    /\ f.organization \in DOMAIN organizations
    /\ f.customer \in {NULL} \cup DOMAIN users
    /\ f.outlet \in {NULL} \cup DOMAIN outlets
    /\ f.bag_number # ""
    /\ f.invoice_number # ""
    /\ f.order_status \in Range(ORDER_STATUS_CHOICES)
    /\ f.payment_status \in Range(PAYMENT_STATUS_CHOICES)
    /\ f.completed_at \in {NULL} \cup Datetimes
    /\ DecimalField(f.total_amount)
    /\ DecimalField(f.amount_paid)

\* Meta.unique_together, as the form's validate_unique and the table's
\* constraints check it: no other row (pk is NULL for a row being added) has
\* the same organization and bag_number, or organization and invoice_number.
validate_unique_bag_only(pk, f) ==
    \A o \in DOMAIN orders \ {pk} :
        ~ (orders[o].organization = f.organization /\ orders[o].bag_number = f.bag_number)

validate_unique(pk, f) ==
    \A o \in DOMAIN orders \ {pk} :
        /\ ~ (orders[o].organization = f.organization /\ orders[o].bag_number = f.bag_number)
        /\ ~ (orders[o].organization = f.organization
                /\ orders[o].invoice_number = f.invoice_number)

\* What the first tenant's add form holds once its required fields are filled
\* in: its Organization, the first bag and invoice numbers, and the defaults
\* of the other fields.
OrderDefaults ==
    [ organization |-> 1, customer |-> NULL, outlet |-> NULL,
      bag_number |-> "BAG-1", invoice_number |-> "INV-1",
      order_status |-> "received", payment_status |-> "pending",
      completed_at |-> NULL, total_amount |-> 0, amount_paid |-> 0 ]

\* admin add view of Order: form.is_valid(), then Model.save() inserts.
AdminAddOrder(f) ==
    /\ seq.orders < MaxOrders
    /\ OrderForm(f)
    /\ validate_unique(NULL, f)
    /\ orders' = Insert(orders, seq.orders + 1, f)
    /\ seq' = [seq EXCEPT !.orders = @ + 1]
    /\ UNCHANGED << items, payments >>
    /\ UNCHANGED << organizations, users, dispatches, handovers, defects, requests >>
    /\ UNCHANGED << outlets, profiles, payment_details, employees, response >>

\* admin change view of Order: every editable field is overwritten by the form.
AdminChangeOrder(pk, f) ==
    /\ pk \in DOMAIN orders
    /\ OrderForm(f)
    /\ validate_unique(pk, f)
    /\ orders' = [orders EXCEPT ![pk] = f]
    /\ UNCHANGED << items, payments, seq >>
    /\ UNCHANGED << organizations, users, dispatches, handovers, defects, requests >>
    /\ UNCHANGED << outlets, profiles, payment_details, employees, response >>

\* What deleting the LaundryItem rows gone does to the rows that reference
\* them: on_delete=CASCADE on ItemHandover.item and DefectReport.item, and the
\* rows of the DispatchRequest.items relation.
ItemsGone(gone) ==
    /\ handovers' = Without(handovers, { h \in DOMAIN handovers : handovers[h].item \in gone })
    /\ defects' = Without(defects, { d \in DOMAIN defects : defects[d].item \in gone })
    /\ dispatches' = [ d \in DOMAIN dispatches |->
                          [dispatches[d] EXCEPT !.items = @ \ gone] ]

\* admin delete view of Order: on_delete=CASCADE on LaundryItem.order and
\* OrderPayment.order removes the rows that reference it.
AdminDeleteOrder(pk) ==
    /\ pk \in DOMAIN orders
    /\ orders' = Without(orders, {pk})
    /\ LET gone == { i \in DOMAIN items : items[i].order = pk }
       IN  items' = Without(items, gone) /\ ItemsGone(gone)
    /\ payments' = Without(payments, { p \in DOMAIN payments : payments[p].order = pk })
    /\ UNCHANGED << seq, organizations, users, requests >>
    /\ UNCHANGED << outlets, profiles, payment_details, employees, response >>

\* ------------------------------------------------------------ LaundryItem
\* LaundryItem.save: amount is recomputed from the instance's unit_price and
\* quantity, then Model.save() writes the row; the write raises, and nothing
\* is stored, when the product does not fit the amount column.
LaundryItem_save_keeps_amount(row) == row

LaundryItem_save(row) == [row EXCEPT !.amount = row.unit_price * row.quantity]

LaundryItemForm(f) ==
    /\ f.organization \in DOMAIN organizations
    /\ f.order \in DOMAIN orders
    /\ DecimalField(f.unit_price)
    /\ PositiveIntegerField(f.quantity)
    /\ DecimalField(f.amount)
    /\ f.current_stage \in Range(ITEM_STATUS_CHOICES)

\* admin add view of LaundryItem
AdminAddLaundryItem(f) ==
    /\ seq.items < MaxItems
    /\ LaundryItemForm(f)
    /\ DecimalField(LaundryItem_save(f).amount)
    /\ items' = Insert(items, seq.items + 1, LaundryItem_save(f))
    /\ seq' = [seq EXCEPT !.items = @ + 1]
    /\ UNCHANGED << orders, payments >>
    /\ UNCHANGED << organizations, users, dispatches, handovers, defects, requests >>
    /\ UNCHANGED << outlets, profiles, payment_details, employees, response >>

\* admin change view of LaundryItem
AdminChangeLaundryItem(pk, f) ==
    /\ pk \in DOMAIN items
    /\ LaundryItemForm(f)
    /\ DecimalField(LaundryItem_save(f).amount)
    /\ items' = [items EXCEPT ![pk] = LaundryItem_save(f)]
    /\ UNCHANGED << orders, payments, seq >>
    /\ UNCHANGED << organizations, users, dispatches, handovers, defects, requests >>
    /\ UNCHANGED << outlets, profiles, payment_details, employees, response >>

\* The change view of LaundryItem as the two requests it is: the GET renders
\* the form from the row as stored then; the POST, any time later, cleans the
\* submitted form and LaundryItem.save() writes every column from it.  Nothing
\* is locked or versioned between the two, and requests of different editors
\* interleave.
ChangeViewGet(r, pk) ==
    /\ requests[r].pc = "idle"
    /\ pk \in DOMAIN items
    /\ requests' = [requests EXCEPT ![r] = [ pc |-> "form", pk |-> pk, seen |-> items[pk] ]]
    /\ UNCHANGED << orders, items, payments, seq, organizations, users,
                    dispatches, handovers, defects >>
    /\ UNCHANGED << outlets, profiles, payment_details, employees, response >>

\* The POST of a form: saved when the row still exists, answered with "does not
\* exist" when it was deleted meanwhile.
ChangeViewPost(r, f) ==
    /\ requests[r].pc = "form"
    /\ requests' = [requests EXCEPT ![r] = Idle]
    /\ \/ /\ requests[r].pk \in DOMAIN items
          /\ LaundryItemForm(f)
          /\ DecimalField(LaundryItem_save(f).amount)
          /\ items' = [items EXCEPT ![requests[r].pk] = LaundryItem_save(f)]
       \/ /\ requests[r].pk \notin DOMAIN items
          /\ UNCHANGED items
    /\ UNCHANGED << orders, payments, seq, organizations, users,
                    dispatches, handovers, defects >>
    /\ UNCHANGED << outlets, profiles, payment_details, employees, response >>

\* What an editor submits: the form as rendered, with stage and quantity edited.
Edited(seen, stage, quantity) ==
    [seen EXCEPT !.current_stage = stage, !.quantity = quantity]

\* An editor with a form open edits and submits it.
ChangeViewSubmit(r, stage, quantity) ==
    /\ requests[r].pc = "form"
    /\ ChangeViewPost(r, Edited(requests[r].seen, stage, quantity))

\* admin delete view of LaundryItem
AdminDeleteLaundryItem(pk) ==
    /\ pk \in DOMAIN items
    /\ items' = Without(items, {pk})
    /\ ItemsGone({pk})
    /\ UNCHANGED << orders, payments, seq, organizations, users, requests >>
    /\ UNCHANGED << outlets, profiles, payment_details, employees, response >>

\* -------------------------------------------------------- DispatchRequest
\* The form of DispatchRequest: items is a multiple choice among all
\* LaundryItem rows, and at least one must be picked.
DispatchRequestForm(f) ==
    /\ f.organization \in DOMAIN organizations
    /\ f.items \subseteq DOMAIN items
    /\ f.items # {}
    /\ f.status \in Range(STATUS_CHOICES)
    /\ f.accepted_at \in {NULL} \cup Datetimes
    /\ f.completed_at \in {NULL} \cup Datetimes

\* admin add view of DispatchRequest: the row, then its items relation.
AdminAddDispatchRequest(f) ==
    /\ seq.dispatches < MaxDispatches
    /\ DispatchRequestForm(f)
    /\ dispatches' = Insert(dispatches, seq.dispatches + 1, f)
    /\ seq' = [seq EXCEPT !.dispatches = @ + 1]
    /\ UNCHANGED << orders, items, payments, organizations, users, handovers,
                    defects, requests >>
    /\ UNCHANGED << outlets, profiles, payment_details, employees, response >>

\* admin change view of DispatchRequest
AdminChangeDispatchRequest(pk, f) ==
    /\ pk \in DOMAIN dispatches
    /\ DispatchRequestForm(f)
    /\ dispatches' = [dispatches EXCEPT ![pk] = f]
    /\ UNCHANGED << orders, items, payments, seq, organizations, users,
                    handovers, defects, requests >>
    /\ UNCHANGED << outlets, profiles, payment_details, employees, response >>

\* admin delete view of DispatchRequest
AdminDeleteDispatchRequest(pk) ==
    /\ pk \in DOMAIN dispatches
    /\ dispatches' = Without(dispatches, {pk})
    /\ UNCHANGED << orders, items, payments, seq, organizations, users,
                    handovers, defects, requests >>
    /\ UNCHANGED << outlets, profiles, payment_details, employees, response >>

\* ----------------------------------------------------------- ItemHandover
\* A nullable text column left blank on the form is stored as null.
EmptyToNone(text) == IF text = "" THEN None ELSE text

\* The form of ItemHandover; handed_over_at (auto_now_add) is not on it.
\* from_stage may be left blank, to_stage may not.
ItemHandoverForm(f) ==
    /\ f.organization \in DOMAIN organizations
    /\ f.item \in DOMAIN items
    /\ f.from_stage \in {""} \cup Range(STAGE_CHOICES)
    /\ f.to_stage \in Range(STAGE_CHOICES)

\* The form's fields on top of the row's other columns.
Stamped(f, at) ==
    [ organization |-> f.organization, item |-> f.item,
      from_stage |-> EmptyToNone(f.from_stage),
      to_stage |-> f.to_stage, handed_over_at |-> at ]

\* admin add view of ItemHandover: handed_over_at is the time of the insert,
\* counted here as the insert's ordinal.
AdminAddItemHandover(f) ==
    /\ seq.handovers < MaxHandovers
    /\ ItemHandoverForm(f)
    /\ handovers' = Insert(handovers, seq.handovers + 1, Stamped(f, seq.handovers + 1))
    /\ seq' = [seq EXCEPT !.handovers = @ + 1]
    /\ UNCHANGED << orders, items, payments, organizations, users, dispatches,
                    defects, requests >>
    /\ UNCHANGED << outlets, profiles, payment_details, employees, response >>

\* admin change view of ItemHandover: handed_over_at stays as inserted.
AdminChangeItemHandover(pk, f) ==
    /\ pk \in DOMAIN handovers
    /\ ItemHandoverForm(f)
    /\ handovers' = [handovers EXCEPT ![pk] = Stamped(f, handovers[pk].handed_over_at)]
    /\ UNCHANGED << orders, items, payments, seq, organizations, users,
                    dispatches, defects, requests >>
    /\ UNCHANGED << outlets, profiles, payment_details, employees, response >>

\* admin delete view of ItemHandover
AdminDeleteItemHandover(pk) ==
    /\ pk \in DOMAIN handovers
    /\ handovers' = Without(handovers, {pk})
    /\ UNCHANGED << orders, items, payments, seq, organizations, users,
                    dispatches, defects, requests >>
    /\ UNCHANGED << outlets, profiles, payment_details, employees, response >>

\* ------------------------------------------------------------------- User
\* An email address is its local part and its domain part; the empty
\* address has neither.
NoEmail == [ local |-> "", domain |-> "" ]

\* str.lower on the domain parts used here.
Lower(domain) == IF domain = "EXAMPLE.COM" THEN "example.com" ELSE domain

\* BaseUserManager.normalize_email: lowercases the domain part only.
normalize_email(email) == [email EXCEPT !.domain = Lower(@)]

\* dict.setdefault on keyword arguments: the value given, else the default.
setdefault(extra_fields, key, default) ==
    IF key \in DOMAIN extra_fields THEN extra_fields ELSE extra_fields @@ (key :> default)

\* self.model(email=..., username=..., **extra_fields): the columns not given
\* take the defaults of their fields.
UserInstance(email, username, extra_fields) ==
    LET given == setdefault(setdefault(setdefault(setdefault(extra_fields,
                     "is_staff", FALSE), "is_superuser", FALSE), "is_active", TRUE),
                     "organization", NULL)
    IN  [ email |-> email, username |-> username, organization |-> given.organization,
          is_staff |-> given.is_staff, is_superuser |-> given.is_superuser,
          is_active |-> given.is_active ]

\* UserManager.create_user: refuses an empty email, otherwise normalises it
\* and saves the user with the extra fields given; the email and username
\* columns are unique.
create_user(email, username, extra_fields) ==
    /\ seq.users < MaxUsers
    /\ email # NoEmail
    /\ \A u \in DOMAIN users :
           users[u].email # normalize_email(email) /\ users[u].username # username
    /\ UserInstance(email, username, extra_fields).organization
           \in {NULL} \cup DOMAIN organizations
    /\ users' = Insert(users, seq.users + 1,
                       UserInstance(normalize_email(email), username, extra_fields))
    /\ seq' = [seq EXCEPT !.users = @ + 1]
    /\ UNCHANGED << orders, items, payments, organizations, dispatches,
                    handovers, defects, requests >>
    /\ UNCHANGED << outlets, profiles, payment_details, employees, response >>

\* UserManager.create_superuser: is_staff, is_superuser and is_active default
\* to True; refuses when is_staff or is_superuser was given as anything else,
\* and creates the user otherwise.
create_superuser(email, username, extra_fields) ==
    LET defaulted == setdefault(setdefault(setdefault(extra_fields,
                         "is_staff", TRUE), "is_superuser", TRUE), "is_active", TRUE)
    IN  /\ defaulted.is_staff = TRUE
        /\ defaulted.is_superuser = TRUE
        /\ create_user(email, username, defaulted)

\* A plain user: AbstractUser's defaults for the flags.
UserDefaults == [ is_staff |-> FALSE, is_superuser |-> FALSE, is_active |-> TRUE ]

\* ----------------------------------------------------------- DefectReport
\* The form of DefectReport: resolved_flag is a checkbox, the other three
\* resolution fields are optional and independent of it.
DefectReportForm(f) ==
    /\ f.organization \in DOMAIN organizations
    /\ f.item \in DOMAIN items
    /\ f.resolved_flag \in BOOLEAN
    /\ f.resolved_by \in {NULL} \cup DOMAIN users
    /\ f.resolved_at \in {NULL} \cup Datetimes
    /\ f.resolution_notes \in STRING

\* The row a valid DefectReport form saves.
Cleaned(f) == [f EXCEPT !.resolution_notes = EmptyToNone(@)]

\* admin add view of DefectReport
AdminAddDefectReport(f) ==
    /\ seq.defects < MaxDefects
    /\ DefectReportForm(f)
    /\ defects' = Insert(defects, seq.defects + 1, Cleaned(f))
    /\ seq' = [seq EXCEPT !.defects = @ + 1]
    /\ UNCHANGED << orders, items, payments, organizations, users, dispatches,
                    handovers, requests >>
    /\ UNCHANGED << outlets, profiles, payment_details, employees, response >>

\* admin change view of DefectReport
AdminChangeDefectReport(pk, f) ==
    /\ pk \in DOMAIN defects
    /\ DefectReportForm(f)
    /\ defects' = [defects EXCEPT ![pk] = Cleaned(f)]
    /\ UNCHANGED << orders, items, payments, seq, organizations, users,
                    dispatches, handovers, requests >>
    /\ UNCHANGED << outlets, profiles, payment_details, employees, response >>

\* admin delete view of DefectReport
AdminDeleteDefectReport(pk) ==
    /\ pk \in DOMAIN defects
    /\ defects' = Without(defects, {pk})
    /\ UNCHANGED << orders, items, payments, seq, organizations, users,
                    dispatches, handovers, requests >>
    /\ UNCHANGED << outlets, profiles, payment_details, employees, response >>

\* -------------------------------------------------------- CustomerProfile
\* CustomerProfile.clean: the keys of the errors dict it raises, none when it
\* returns.
CustomerProfile_clean(self) ==
    IF self.payment_method = "card"
    THEN (IF ~ (Truthy(self.card_number) /\ Truthy(self.expiry_date) /\ Truthy(self.cvc))
          THEN {"card_number"} ELSE {})
         \cup
         (IF Truthy(self.mobile_money_network) \/ Truthy(self.mobile_money_number)
          THEN {"mobile_money_network"} ELSE {})
    ELSE IF self.payment_method = "mobile_money"
    THEN (IF ~ (Truthy(self.mobile_money_network) /\ Truthy(self.mobile_money_number))
          THEN {"mobile_money_network"} ELSE {})
         \cup
         (IF Truthy(self.card_number) \/ Truthy(self.expiry_date) \/ Truthy(self.cvc)
          THEN {"card_number"} ELSE {})
    ELSE {}

\* The fields of CustomerProfile the form cleans before clean() runs: the
\* Organization and the User exist, no other profile has the User
\* (OneToOneField), payment_method is blank or one of the choices.
CustomerProfileForm(pk, f) ==
    /\ f.organization \in DOMAIN organizations
    /\ f.user \in DOMAIN users
    /\ \A c \in DOMAIN profiles \ {pk} : profiles[c].user # f.user
    /\ f.payment_method \in {""} \cup Range(PAYMENT_METHOD_CHOICES)

\* The instance the form builds: blank text is null.
CustomerProfileInstance(f) ==
    [ organization |-> f.organization, user |-> f.user,
      payment_method |-> EmptyToNone(f.payment_method),
      card_number |-> EmptyToNone(f.card_number),
      expiry_date |-> EmptyToNone(f.expiry_date),
      cvc |-> EmptyToNone(f.cvc),
      mobile_money_network |-> EmptyToNone(f.mobile_money_network),
      mobile_money_number |-> EmptyToNone(f.mobile_money_number) ]

\* admin add view of CustomerProfile: the form's fields, then clean(); the
\* row is saved when clean() raised nothing, and the form is shown again with
\* the errors otherwise.
AdminAddCustomerProfile(f) ==
    /\ seq.profiles < MaxProfiles
    /\ CustomerProfileForm(NULL, f)
    /\ LET self == CustomerProfileInstance(f)
           errors == CustomerProfile_clean(self)
       IN  /\ response' = [ view |-> "CustomerProfile", form |-> self, errors |-> errors ]
           /\ IF errors = {}
              THEN /\ profiles' = Insert(profiles, seq.profiles + 1, self)
                   /\ seq' = [seq EXCEPT !.profiles = @ + 1]
              ELSE UNCHANGED << profiles, seq >>
    /\ UNCHANGED << orders, items, payments, organizations, users, dispatches,
                    handovers, defects, requests, outlets, payment_details, employees >>

\* admin change view of CustomerProfile
AdminChangeCustomerProfile(pk, f) ==
    /\ pk \in DOMAIN profiles
    /\ CustomerProfileForm(pk, f)
    /\ LET self == CustomerProfileInstance(f)
           errors == CustomerProfile_clean(self)
       IN  /\ response' = [ view |-> "CustomerProfile", form |-> self, errors |-> errors ]
           /\ IF errors = {}
              THEN profiles' = [profiles EXCEPT ![pk] = self]
              ELSE UNCHANGED profiles
    /\ UNCHANGED << orders, items, payments, seq, organizations, users, dispatches,
                    handovers, defects, requests, outlets, payment_details, employees >>

\* admin delete view of CustomerProfile
AdminDeleteCustomerProfile(pk) ==
    /\ pk \in DOMAIN profiles
    /\ profiles' = Without(profiles, {pk})
    /\ UNCHANGED << orders, items, payments, seq, organizations, users, dispatches,
                    handovers, defects, requests, outlets, payment_details,
                    employees, response >>

\* ---------------------------------------------------------- PaymentDetail
\* clean() checking only that the fields of the payment_type are complete.
PaymentDetail_clean_own_fields_only(self) ==
    IF self.payment_type = "bank"
    THEN IF ~ Truthy(self.bank_name) \/ ~ Truthy(self.account_number) \/ ~ Truthy(self.branch)
         THEN {NON_FIELD_ERRORS}
         ELSE {}
    ELSE IF self.payment_type = "mobile_money"
    THEN IF ~ Truthy(self.mobile_network) \/ ~ Truthy(self.merchant_number)
               \/ ~ Truthy(self.merchant_id)
         THEN {NON_FIELD_ERRORS}
         ELSE {}
    ELSE {}

\* PaymentDetail.clean: each raise is a ValidationError of a message alone,
\* which Django files under NON_FIELD_ERRORS.
PaymentDetail_clean(self) ==
    IF self.payment_type = "bank"
    THEN IF ~ Truthy(self.bank_name) \/ ~ Truthy(self.account_number) \/ ~ Truthy(self.branch)
         THEN {NON_FIELD_ERRORS}
         ELSE IF Truthy(self.mobile_network) \/ Truthy(self.merchant_number)
                   \/ Truthy(self.merchant_id)
         THEN {NON_FIELD_ERRORS}
         ELSE {}
    ELSE IF self.payment_type = "mobile_money"
    THEN IF ~ Truthy(self.mobile_network) \/ ~ Truthy(self.merchant_number)
               \/ ~ Truthy(self.merchant_id)
         THEN {NON_FIELD_ERRORS}
         ELSE IF Truthy(self.bank_name) \/ Truthy(self.account_number) \/ Truthy(self.branch)
         THEN {NON_FIELD_ERRORS}
         ELSE {}
    ELSE {}

\* The fields of PaymentDetail the form cleans before clean() runs.
PaymentDetailForm(f) ==
    /\ f.organization \in DOMAIN organizations
    /\ f.payment_type \in Range(PAYMENT_TYPE_CHOICES)
    /\ f.bank_name \in {""} \cup Range(BANK_CHOICES)
    /\ f.mobile_network \in {""} \cup Range(MM_NETWORK_CHOICES)

\* The instance the form builds: blank text is null.
PaymentDetailInstance(f) ==
    [ organization |-> f.organization, payment_type |-> f.payment_type,
      bank_name |-> EmptyToNone(f.bank_name),
      account_number |-> EmptyToNone(f.account_number),
      branch |-> EmptyToNone(f.branch),
      mobile_network |-> EmptyToNone(f.mobile_network),
      merchant_number |-> EmptyToNone(f.merchant_number),
      merchant_id |-> EmptyToNone(f.merchant_id) ]

\* admin add view of PaymentDetail
AdminAddPaymentDetail(f) ==
    /\ seq.payment_details < MaxPaymentDetails
    /\ PaymentDetailForm(f)
    /\ LET self == PaymentDetailInstance(f)
           errors == PaymentDetail_clean(self)
       IN  /\ response' = [ view |-> "PaymentDetail", form |-> self, errors |-> errors ]
           /\ IF errors = {}
              THEN /\ payment_details' = Insert(payment_details, seq.payment_details + 1, self)
                   /\ seq' = [seq EXCEPT !.payment_details = @ + 1]
              ELSE UNCHANGED << payment_details, seq >>
    /\ UNCHANGED << orders, items, payments, organizations, users, dispatches,
                    handovers, defects, requests, outlets, profiles, employees >>

\* admin change view of PaymentDetail
AdminChangePaymentDetail(pk, f) ==
    /\ pk \in DOMAIN payment_details
    /\ PaymentDetailForm(f)
    /\ LET self == PaymentDetailInstance(f)
           errors == PaymentDetail_clean(self)
       IN  /\ response' = [ view |-> "PaymentDetail", form |-> self, errors |-> errors ]
           /\ IF errors = {}
              THEN payment_details' = [payment_details EXCEPT ![pk] = self]
              ELSE UNCHANGED payment_details
    /\ UNCHANGED << orders, items, payments, seq, organizations, users, dispatches,
                    handovers, defects, requests, outlets, profiles, employees >>

\* admin delete view of PaymentDetail
AdminDeletePaymentDetail(pk) ==
    /\ pk \in DOMAIN payment_details
    /\ payment_details' = Without(payment_details, {pk})
    /\ UNCHANGED << orders, items, payments, seq, organizations, users, dispatches,
                    handovers, defects, requests, outlets, profiles, employees,
                    response >>

\* --------------------------------------------------------------- Employee
\* The order of two times on the same day, as datetime.combine(day, time)
\* compares them: by hour, minute and second.
SecondOfDay(time) == (time[1] * 60 + time[2]) * 60 + time[3]

\* Employee.clean: raises (a message alone) when both shifts are set and the
\* end is not after the start.
Employee_clean(self) ==
    IF self.start_shift # NoTime /\ self.end_shift # NoTime
    THEN IF SecondOfDay(self.end_shift) <= SecondOfDay(self.start_shift)
         THEN {NON_FIELD_ERRORS}
         ELSE {}
    ELSE {}

\* start_minutes and end_minutes of total_hours_per_day: minutes from midnight,
\* the seconds dropped.
MinuteOfDay(time) == time[1] * 60 + time[2]

\* The branch of total_hours_per_day for shifts crossing midnight.
crosses_midnight(self) == MinuteOfDay(self.end_shift) <= MinuteOfDay(self.start_shift)

\* f"{hours}h {mins}m"
HoursAndMinutes(minutes) ==
    ToString(minutes \div 60) \o "h " \o ToString(minutes % 60) \o "m"

\* Employee.total_hours_per_day, the property that replaced the first one.
total_hours_per_day(self) ==
    IF self.start_shift # NoTime /\ self.end_shift # NoTime
    THEN LET start_minutes == MinuteOfDay(self.start_shift)
             end_minutes == MinuteOfDay(self.end_shift)
             total_shift_minutes ==
                 IF end_minutes <= start_minutes
                 THEN (24 * 60 - start_minutes) + end_minutes
                 ELSE end_minutes - start_minutes
             break_minutes ==
                 IF self.break_duration_minutes # Unset
                 THEN self.break_duration_minutes ELSE 0
             work_duration_minutes == total_shift_minutes - break_minutes
         IN  HoursAndMinutes(IF work_duration_minutes < 0 THEN 0 ELSE work_duration_minutes)
    ELSE None

\* The fields of Employee the form cleans before clean() runs: the
\* Organization and the User exist, no other Employee has the User
\* (OneToOneField), the times are times of day, the break is blank or a
\* PositiveSmallIntegerField.
TimeField(time) ==
    \/ time = NoTime
    \/ Len(time) = 3 /\ time[1] \in 0..23 /\ time[2] \in 0..59 /\ time[3] \in 0..59

EmployeeForm(pk, f) ==
    /\ f.organization \in DOMAIN organizations
    /\ f.user \in DOMAIN users
    /\ \A e \in DOMAIN employees \ {pk} : employees[e].user # f.user
    /\ TimeField(f.start_shift)
    /\ TimeField(f.end_shift)
    /\ f.break_duration_minutes = Unset \/ f.break_duration_minutes \in 0..32767

\* admin add view of Employee: the form's fields, then clean(); saved when
\* clean() raised nothing.
AdminAddEmployee(f) ==
    /\ seq.employees < MaxEmployees
    /\ EmployeeForm(NULL, f)
    /\ LET errors == Employee_clean(f)
       IN  /\ response' = [ view |-> "Employee", form |-> f, errors |-> errors ]
           /\ IF errors = {}
              THEN /\ employees' = Insert(employees, seq.employees + 1, f)
                   /\ seq' = [seq EXCEPT !.employees = @ + 1]
              ELSE UNCHANGED << employees, seq >>
    /\ UNCHANGED << orders, items, payments, organizations, users, dispatches,
                    handovers, defects, requests, outlets, profiles, payment_details >>

\* admin change view of Employee
AdminChangeEmployee(pk, f) ==
    /\ pk \in DOMAIN employees
    /\ EmployeeForm(pk, f)
    /\ LET errors == Employee_clean(f)
       IN  /\ response' = [ view |-> "Employee", form |-> f, errors |-> errors ]
           /\ IF errors = {}
              THEN employees' = [employees EXCEPT ![pk] = f]
              ELSE UNCHANGED employees
    /\ UNCHANGED << orders, items, payments, seq, organizations, users, dispatches,
                    handovers, defects, requests, outlets, profiles, payment_details >>

\* admin delete view of Employee
AdminDeleteEmployee(pk) ==
    /\ pk \in DOMAIN employees
    /\ employees' = Without(employees, {pk})
    /\ UNCHANGED << orders, items, payments, seq, organizations, users, dispatches,
                    handovers, defects, requests, outlets, profiles, payment_details,
                    response >>

\* ----------------------------------------------------------------- Outlet
\* admin add view of Outlet
AdminAddOutlet(f) ==
    /\ seq.outlets < MaxOutlets
    /\ f.organization \in DOMAIN organizations
    /\ outlets' = Insert(outlets, seq.outlets + 1, f)
    /\ seq' = [seq EXCEPT !.outlets = @ + 1]
    /\ UNCHANGED << orders, items, payments, organizations, users, dispatches,
                    handovers, defects, requests, profiles, payment_details,
                    employees, response >>

\* ------------------------------------ deleting what other rows reference
\* Model.delete() of the Organizations orgs, the Users us and the Outlets
\* outs: the rows whose on_delete=CASCADE foreign keys lead to them go with
\* them, and the on_delete=SET_NULL foreign keys to a row that goes are
\* cleared.
Delete(orgs, us, outs) ==
    LET goneUsers == us \cup { u \in DOMAIN users : users[u].organization \in orgs }
        goneOutlets == outs \cup { t \in DOMAIN outlets : outlets[t].organization \in orgs }
        goneOrders == { o \in DOMAIN orders : orders[o].organization \in orgs }
        goneItems == { i \in DOMAIN items :
                          items[i].organization \in orgs \/ items[i].order \in goneOrders }
        gonePayments == { p \in DOMAIN payments :
                             payments[p].organization \in orgs
                                 \/ payments[p].order \in goneOrders }
        goneDispatches == { d \in DOMAIN dispatches : dispatches[d].organization \in orgs }
        goneHandovers == { h \in DOMAIN handovers :
                              handovers[h].organization \in orgs
                                  \/ handovers[h].item \in goneItems }
        goneDefects == { d \in DOMAIN defects :
                            defects[d].organization \in orgs \/ defects[d].item \in goneItems }
        goneProfiles == { c \in DOMAIN profiles :
                             profiles[c].organization \in orgs
                                 \/ profiles[c].user \in goneUsers }
        goneEmployees == { e \in DOMAIN employees :
                              employees[e].organization \in orgs
                                  \/ employees[e].user \in goneUsers }
        goneDetails == { p \in DOMAIN payment_details :
                            payment_details[p].organization \in orgs }
    IN  /\ organizations' = Without(organizations, orgs)
        /\ users' = Without(users, goneUsers)
        /\ outlets' = Without(outlets, goneOutlets)
        /\ orders' = [ o \in DOMAIN orders \ goneOrders |->
                         [orders[o] EXCEPT
                              !.customer = IF @ \in goneUsers THEN NULL ELSE @,
                              !.outlet = IF @ \in goneOutlets THEN NULL ELSE @] ]
        /\ items' = Without(items, goneItems)
        /\ payments' = Without(payments, gonePayments)
        /\ dispatches' = [ d \in DOMAIN dispatches \ goneDispatches |->
                             [dispatches[d] EXCEPT !.items = @ \ goneItems] ]
        /\ handovers' = Without(handovers, goneHandovers)
        /\ defects' = [ d \in DOMAIN defects \ goneDefects |->
                          [defects[d] EXCEPT
                               !.resolved_by = IF @ \in goneUsers THEN NULL ELSE @] ]
        /\ profiles' = Without(profiles, goneProfiles)
        /\ employees' = Without(employees, goneEmployees)
        /\ payment_details' = Without(payment_details, goneDetails)
        /\ UNCHANGED << seq, requests, response >>

\* The Organization's row deleted and every other table left as it is.
AdminDeleteOrganization_keeps_orders(pk) ==
    /\ pk \in DOMAIN organizations
    /\ organizations' = Without(organizations, {pk})
    /\ UNCHANGED << orders, items, payments, seq, users, dispatches, handovers,
                    defects, requests, outlets, profiles, payment_details,
                    employees, response >>

\* admin delete view of Organization
AdminDeleteOrganization(pk) ==
    /\ pk \in DOMAIN organizations
    /\ Delete({pk}, {}, {})

\* admin delete view of Outlet
AdminDeleteOutlet(pk) ==
    /\ pk \in DOMAIN outlets
    /\ Delete({}, {}, {pk})

\* Deleting a User
DeleteUser(pk) ==
    /\ pk \in DOMAIN users
    /\ Delete({}, {pk}, {})

\* ----------------------------------------------------------- OrderPayment
OrderPaymentForm(f) ==
    /\ f.organization \in DOMAIN organizations
    /\ f.order \in DOMAIN orders
    /\ DecimalField(f.amount)

\* admin add view of OrderPayment: the row is inserted; no save(), signal or
\* other code touches the Order it references.
AdminAddOrderPayment(f) ==
    /\ seq.payments < MaxPayments
    /\ OrderPaymentForm(f)
    /\ payments' = Insert(payments, seq.payments + 1, f)
    /\ seq' = [seq EXCEPT !.payments = @ + 1]
    /\ UNCHANGED << orders, items >>
    /\ UNCHANGED << organizations, users, dispatches, handovers, defects, requests >>
    /\ UNCHANGED << outlets, profiles, payment_details, employees, response >>

\* admin change view of OrderPayment
AdminChangeOrderPayment(pk, f) ==
    /\ pk \in DOMAIN payments
    /\ OrderPaymentForm(f)
    /\ payments' = [payments EXCEPT ![pk] = f]
    /\ UNCHANGED << orders, items, seq >>
    /\ UNCHANGED << organizations, users, dispatches, handovers, defects, requests >>
    /\ UNCHANGED << outlets, profiles, payment_details, employees, response >>

\* admin delete view of OrderPayment
AdminDeleteOrderPayment(pk) ==
    /\ pk \in DOMAIN payments
    /\ payments' = Without(payments, {pk})
    /\ UNCHANGED << orders, items, seq >>
    /\ UNCHANGED << organizations, users, dispatches, handovers, defects, requests >>
    /\ UNCHANGED << outlets, profiles, payment_details, employees, response >>

\* ---------------------------------------------------------- specifications
\* An empty database.
Init ==
    /\ orders = << >>
    /\ items = << >>
    /\ payments = << >>
    /\ seq = [ orders |-> 0, items |-> 0, payments |-> 0, organizations |-> 0,
               users |-> 0, dispatches |-> 0, handovers |-> 0, defects |-> 0,
               outlets |-> 0, profiles |-> 0, payment_details |-> 0,
               employees |-> 0 ]
    /\ organizations = << >>
    /\ users = << >>
    /\ dispatches = << >>
    /\ handovers = << >>
    /\ defects = << >>
    /\ requests = [ r \in 1..MaxRequests |-> Idle ]
    /\ outlets = << >>
    /\ profiles = << >>
    /\ payment_details = << >>
    /\ employees = << >>
    /\ response = NoResponse

\* What the editors type into the forms (all of it passes the forms' cleaning).
PricesTyped == { 0, 150 }

AmountsTyped == { 0, 999 }

StagesTyped == { "received", "in_washing" }

TotalsTyped == { 0, 10000 }

PaidTyped == { 0, 4000 }

PaymentStatusesTyped == { "pending", "partial", "paid" }

PaymentAmountsTyped == { -1000, 0, 4000, 6000 }

OrderPks == 1..MaxOrders

\* The editors of one tenant pick their own Organization, the first one.
OneOrg == { 1 }

\* ... and attach what they add to the first Order.
OneOrder == { 1 }

\* ---- LaundryItem amounts: default Orders, items of the first with typed price,
\* quantity, amount and stage.
ItemForms ==
    [ organization : OneOrg, order : OneOrder, unit_price : PricesTyped, quantity : 0..MaxQuantity,
      amount : AmountsTyped, current_stage : StagesTyped ]

NextItem ==
    \/ AdminAddOrganization(OrganizationDefaults)
    \/ AdminAddOrder(OrderDefaults)
    \/ \E pk \in OrderPks : AdminDeleteOrder(pk)
    \/ \E f \in ItemForms : AdminAddLaundryItem(f)
    \/ \E pk \in 1..MaxItems, f \in ItemForms : AdminChangeLaundryItem(pk, f)
    \/ \E pk \in 1..MaxItems : AdminDeleteLaundryItem(pk)

SpecItem == Init /\ [][NextItem]_vars

\* ---- statuses and stages: Orders with any order_status and completed_at,
\* items with any current_stage (price and quantity left at their defaults).
StatusForms ==
    [ organization : OneOrg, customer : {NULL}, outlet : {NULL},
      bag_number : {"BAG-1"}, invoice_number : {"INV-1"},
      order_status : Range(ORDER_STATUS_CHOICES), payment_status : {"pending"},
      completed_at : {NULL} \cup Datetimes, total_amount : {0}, amount_paid : {0} ]

StageForms ==
    [ organization : OneOrg, order : OrderPks, unit_price : {0}, quantity : {1}, amount : {0},
      current_stage : Range(ITEM_STATUS_CHOICES) ]

NextStage ==
    \/ AdminAddOrganization(OrganizationDefaults)
    \/ \E f \in StatusForms : AdminAddOrder(f)
    \/ \E pk \in OrderPks, f \in StatusForms : AdminChangeOrder(pk, f)
    \/ \E pk \in OrderPks : AdminDeleteOrder(pk)
    \/ \E f \in StageForms : AdminAddLaundryItem(f)
    \/ \E pk \in 1..MaxItems, f \in StageForms : AdminChangeLaundryItem(pk, f)
    \/ \E pk \in 1..MaxItems : AdminDeleteLaundryItem(pk)

SpecStage == Init /\ [][NextStage]_vars

\* ---- payments: Orders with typed totals, amount_paid and payment_status,
\* and OrderPayment rows against them.
MoneyForms ==
    [ organization : OneOrg, customer : {NULL}, outlet : {NULL},
      bag_number : {"BAG-1"}, invoice_number : {"INV-1"},
      order_status : {"received"}, payment_status : PaymentStatusesTyped,
      completed_at : {NULL}, total_amount : TotalsTyped, amount_paid : PaidTyped ]

PaymentForms == [ organization : OneOrg, order : OrderPks, amount : PaymentAmountsTyped ]

NextPayment ==
    \/ AdminAddOrganization(OrganizationDefaults)
    \/ \E f \in MoneyForms : AdminAddOrder(f)
    \/ \E pk \in OrderPks, f \in MoneyForms : AdminChangeOrder(pk, f)
    \/ \E pk \in OrderPks : AdminDeleteOrder(pk)
    \/ \E f \in PaymentForms : AdminAddOrderPayment(f)
    \/ \E pk \in 1..MaxPayments, f \in PaymentForms : AdminChangeOrderPayment(pk, f)
    \/ \E pk \in 1..MaxPayments : AdminDeleteOrderPayment(pk)

SpecPayment == Init /\ [][NextPayment]_vars

\* ---- concurrent editors of LaundryItem: each opens the change form of an
\* item, edits its stage and quantity, and submits.
ConcurrentStages == { "in_washing", "washing_complete", "damaged" }

ConcurrentQuantities == { 1, 2 }

ConcurrentForms ==
    [ organization : OneOrg, order : OneOrder, unit_price : {150},
      quantity : ConcurrentQuantities, amount : {0}, current_stage : ConcurrentStages ]

NextConcurrent ==
    \/ AdminAddOrganization(OrganizationDefaults)
    \/ AdminAddOrder(OrderDefaults)
    \/ \E f \in ConcurrentForms : AdminAddLaundryItem(f)
    \/ \E pk \in 1..MaxItems : AdminDeleteLaundryItem(pk)
    \/ \E r \in 1..MaxRequests, pk \in 1..MaxItems : ChangeViewGet(r, pk)
    \/ \E r \in 1..MaxRequests, st \in ConcurrentStages, q \in ConcurrentQuantities :
           ChangeViewSubmit(r, st, q)

SpecConcurrent == Init /\ [][NextConcurrent]_vars

\* ---- dispatches and the items on them: items of any Organization,
\* dispatches of any Organization over any of the items, open or closed.
OrgPks == 1..MaxOrgs

ItemPks == 1..MaxItems

DispatchPks == 1..MaxDispatches

TenantItemForms ==
    [ organization : OrgPks, order : OneOrder, unit_price : {0}, quantity : {1},
      amount : {0}, current_stage : {"received"} ]

DispatchItemForms ==
    [ organization : OrgPks, items : SUBSET ItemPks, status : {"pending", "completed"},
      accepted_at : {NULL}, completed_at : {NULL} ]

NextDispatch ==
    \/ AdminAddOrganization(OrganizationDefaults)
    \/ AdminAddOrder(OrderDefaults)
    \/ \E f \in TenantItemForms : AdminAddLaundryItem(f)
    \/ \E pk \in ItemPks : AdminDeleteLaundryItem(pk)
    \/ \E f \in DispatchItemForms : AdminAddDispatchRequest(f)
    \/ \E pk \in DispatchPks, f \in DispatchItemForms : AdminChangeDispatchRequest(pk, f)
    \/ \E pk \in DispatchPks : AdminDeleteDispatchRequest(pk)

SpecDispatch == Init /\ [][NextDispatch]_vars

\* ---- dispatch statuses: dispatches of one item with any status and
\* timestamps.
DispatchStatusForms ==
    [ organization : OneOrg, items : { {1} }, status : Range(STATUS_CHOICES),
      accepted_at : {NULL} \cup Datetimes, completed_at : {NULL} \cup Datetimes ]

NextDispatchStatus ==
    \/ AdminAddOrganization(OrganizationDefaults)
    \/ AdminAddOrder(OrderDefaults)
    \/ \E f \in TenantItemForms : AdminAddLaundryItem(f)
    \/ \E f \in DispatchStatusForms : AdminAddDispatchRequest(f)
    \/ \E pk \in DispatchPks, f \in DispatchStatusForms : AdminChangeDispatchRequest(pk, f)
    \/ \E pk \in DispatchPks : AdminDeleteDispatchRequest(pk)

SpecDispatchStatus == Init /\ [][NextDispatchStatus]_vars

\* ---- handovers of the items between a few of the stages.
HandoverPks == 1..MaxHandovers

HandoverForms ==
    [ organization : OneOrg, item : ItemPks,
      from_stage : { "", "factory_intake", "washing" },
      to_stage : { "", "factory_intake", "washing", "drying" } ]

NextHandover ==
    \/ AdminAddOrganization(OrganizationDefaults)
    \/ AdminAddOrder(OrderDefaults)
    \/ \E f \in TenantItemForms : AdminAddLaundryItem(f)
    \/ \E pk \in ItemPks : AdminDeleteLaundryItem(pk)
    \/ \E f \in HandoverForms : AdminAddItemHandover(f)
    \/ \E pk \in HandoverPks, f \in HandoverForms : AdminChangeItemHandover(pk, f)
    \/ \E pk \in HandoverPks : AdminDeleteItemHandover(pk)

SpecHandover == Init /\ [][NextHandover]_vars

\* ---- defect reports on the first item, resolved or not, by users that come
\* and go.
UserPks == 1..MaxUsers

DefectPks == 1..MaxDefects

EmailsTyped ==
    { NoEmail, [ local |-> "Staff", domain |-> "EXAMPLE.COM" ],
      [ local |-> "staff", domain |-> "example.com" ] }

DefectForms ==
    [ organization : OneOrg, item : { 1 }, resolved_flag : BOOLEAN,
      resolved_by : {NULL} \cup UserPks, resolved_at : {NULL} \cup Datetimes,
      resolution_notes : { "", "rewashed" } ]

NextDefect ==
    \/ AdminAddOrganization(OrganizationDefaults)
    \/ AdminAddOrder(OrderDefaults)
    \/ \E f \in TenantItemForms : AdminAddLaundryItem(f)
    \/ \E email \in EmailsTyped : create_user(email, "staff", UserDefaults)
    \/ \E pk \in UserPks : DeleteUser(pk)
    \/ \E f \in DefectForms : AdminAddDefectReport(f)
    \/ \E pk \in DefectPks, f \in DefectForms : AdminChangeDefectReport(pk, f)
    \/ \E pk \in DefectPks : AdminDeleteDefectReport(pk)

SpecDefect == Init /\ [][NextDefect]_vars

\* ---- bag and invoice numbers: Orders of any Organization with typed bag
\* and invoice numbers, added, renumbered and deleted.
BagNumbersTyped == { "BAG-1", "BAG-2" }

InvoiceNumbersTyped == { "INV-1", "INV-2", "INV-3" }

NumberForms ==
    [ organization : OrgPks, customer : {NULL}, outlet : {NULL},
      bag_number : BagNumbersTyped, invoice_number : InvoiceNumbersTyped,
      order_status : {"received"}, payment_status : {"pending"},
      completed_at : {NULL}, total_amount : {0}, amount_paid : {0} ]

NextNumber ==
    \/ AdminAddOrganization(OrganizationDefaults)
    \/ \E f \in NumberForms : AdminAddOrder(f)
    \/ \E pk \in OrderPks, f \in NumberForms : AdminChangeOrder(pk, f)
    \/ \E pk \in OrderPks : AdminDeleteOrder(pk)

SpecNumber == Init /\ [][NextNumber]_vars

\* ---- billing details of a customer: profiles of the one User with any
\* payment method and any of the card and mobile money fields filled in, and
\* payment details of the Organization submitted next to them.
ProfilePks == 1..MaxProfiles

PaymentDetailPks == 1..MaxPaymentDetails

ProfileForms ==
    [ organization : OneOrg, user : UserPks,
      payment_method : { "", "card", "mobile_money", "cash" },
      card_number : { "", "4111-1111-1111-1111" }, expiry_date : { "", "12/30" },
      cvc : { "", "123" },
      mobile_money_network : { "", "MTN" }, mobile_money_number : { "", "0240000000" } ]

PaymentDetailForms ==
    [ organization : OneOrg, payment_type : Range(PAYMENT_TYPE_CHOICES),
      bank_name : { "", "calbank" }, account_number : { "", "0011223344" },
      branch : { "", "Accra" },
      mobile_network : { "", "mtn" }, merchant_number : { "", "0240000000" },
      merchant_id : { "", "M-77" } ]

\* The bank details typed next to the profiles.
BankDetailForms ==
    [ organization : OneOrg, payment_type : {"bank"},
      bank_name : { "", "calbank" }, account_number : { "0011223344" },
      branch : { "Accra" },
      mobile_network : { "" }, merchant_number : { "", "0240000000" },
      merchant_id : { "" } ]

NextProfile ==
    \/ AdminAddOrganization(OrganizationDefaults)
    \/ create_user([ local |-> "staff", domain |-> "example.com" ], "staff", UserDefaults)
    \/ \E f \in ProfileForms : AdminAddCustomerProfile(f)
    \/ \E pk \in ProfilePks, f \in ProfileForms : AdminChangeCustomerProfile(pk, f)
    \/ \E pk \in ProfilePks : AdminDeleteCustomerProfile(pk)
    \/ \E f \in BankDetailForms : AdminAddPaymentDetail(f)

SpecProfile == Init /\ [][NextProfile]_vars

\* ---- payment details of an Organization, of either type with any of the
\* six fields filled in.
NextPaymentDetail ==
    \/ AdminAddOrganization(OrganizationDefaults)
    \/ \E f \in PaymentDetailForms : AdminAddPaymentDetail(f)
    \/ \E pk \in PaymentDetailPks, f \in PaymentDetailForms : AdminChangePaymentDetail(pk, f)
    \/ \E pk \in PaymentDetailPks : AdminDeletePaymentDetail(pk)

SpecPaymentDetail == Init /\ [][NextPaymentDetail]_vars

\* ---- shifts of an employee: start and end at a few times of day, to the
\* second, or blank, with a break that is blank, none, short or longer than
\* the day.
EmployeePks == 1..MaxEmployees

TimesTyped == { NoTime, << 0, 0, 0 >>, << 9, 0, 0 >>, << 9, 0, 30 >>, << 17, 30, 0 >> }

BreaksTyped == { Unset, 0, 30, 1500 }

EmployeeForms ==
    [ organization : OneOrg, user : UserPks, start_shift : TimesTyped,
      end_shift : TimesTyped, break_duration_minutes : BreaksTyped ]

NextEmployee ==
    \/ AdminAddOrganization(OrganizationDefaults)
    \/ create_user([ local |-> "staff", domain |-> "example.com" ], "staff", UserDefaults)
    \/ \E f \in EmployeeForms : AdminAddEmployee(f)
    \/ \E pk \in EmployeePks, f \in EmployeeForms : AdminChangeEmployee(pk, f)
    \/ \E pk \in EmployeePks : AdminDeleteEmployee(pk)

SpecEmployee == Init /\ [][NextEmployee]_vars

\* ---- accounts: users and superusers created with any of the three flags
\* given as keyword arguments or left out, and deleted.
UsernamesTyped == { "staff", "admin" }

FlagNames == { "is_staff", "is_superuser", "is_active" }

ExtraFieldsTyped == UNION { [ given -> BOOLEAN ] : given \in SUBSET FlagNames }

NextUser ==
    \/ \E email \in EmailsTyped, username \in UsernamesTyped, extra_fields \in ExtraFieldsTyped :
           create_user(email, username, extra_fields)
    \/ \E email \in EmailsTyped, username \in UsernamesTyped, extra_fields \in ExtraFieldsTyped :
           create_superuser(email, username, extra_fields)
    \/ \E pk \in UserPks : DeleteUser(pk)

SpecUser == Init /\ [][NextUser]_vars

\* ---- deletions: the first tenant's Orders with a customer and an Outlet,
\* items and payments on them, and the Organizations, Orders, Outlets and
\* Users deleted in any order.
OutletPks == 1..MaxOutlets

OutletForms == [ organization : OneOrg ]

\* An Order of Organization org for customer user at Outlet outlet.
PlacedOrder(org, user, outlet) ==
    [OrderDefaults EXCEPT !.organization = org, !.customer = user, !.outlet = outlet]

\* A tenant's editor adds the item, or the payment, of an Order of the tenant
\* (one of each per Order here).
AddItemOnOrder(o) ==
    /\ o \in DOMAIN orders
    /\ \A i \in DOMAIN items : items[i].order # o
    /\ AdminAddLaundryItem([ organization |-> orders[o].organization, order |-> o,
                             unit_price |-> 0, quantity |-> 1, amount |-> 0,
                             current_stage |-> "received" ])

AddPaymentOnOrder(o) ==
    /\ o \in DOMAIN orders
    /\ \A p \in DOMAIN payments : payments[p].order # o
    /\ AdminAddOrderPayment([ organization |-> orders[o].organization, order |-> o,
                              amount |-> 4000 ])

NextDeletion ==
    \/ AdminAddOrganization(OrganizationDefaults)
    \/ create_user([ local |-> "customer", domain |-> "example.com" ], "customer", UserDefaults)
    \/ \E f \in OutletForms : AdminAddOutlet(f)
    \/ \E org \in OneOrg, user \in UserPks, outlet \in OutletPks :
           AdminAddOrder(PlacedOrder(org, user, outlet))
    \/ \E o \in OrderPks : AddItemOnOrder(o)
    \/ \E o \in OrderPks : AddPaymentOnOrder(o)
    \/ \E pk \in OrgPks : AdminDeleteOrganization(pk)
    \/ \E pk \in OrderPks : AdminDeleteOrder(pk)
    \/ \E pk \in OutletPks : AdminDeleteOutlet(pk)
    \/ \E pk \in UserPks : DeleteUser(pk)

SpecDeletion == Init /\ [][NextDeletion]_vars

\* ------------------------------------------------------------------ claims
\* C1: every stored LaundryItem has amount = unit_price * quantity, whatever
\* sequence of additions and changes of price, quantity or stage produced it.
C1_AmountIsPriceTimesQuantity ==
    \A i \in DOMAIN items : items[i].amount = items[i].unit_price * items[i].quantity

\* Two items by 1.50 stored with amount 3.00, a value no editor typed.
C1_Witness ==
    \E i \in DOMAIN items :
        /\ items[i].unit_price = 150
        /\ items[i].quantity = 2
        /\ items[i].amount = 300
        /\ items[i].amount \notin AmountsTyped

\* C2: for every Order, amount_outstanding is total_amount - amount_paid, also
\* once payments have been recorded against it.
C2_OutstandingIsTotalMinusPaid ==
    \A o \in DOMAIN orders :
        amount_outstanding(orders[o]) = orders[o].total_amount - orders[o].amount_paid

\* An Order of 100.00 with 40.00 paid and two payments recorded against it.
C2_Witness ==
    \E o \in DOMAIN orders :
        /\ orders[o].total_amount = 10000
        /\ orders[o].amount_paid = 4000
        /\ amount_outstanding(orders[o]) = 6000
        /\ Cardinality({ p \in DOMAIN payments : payments[p].order = o }) = 2

\* C3: amount_outstanding is never negative: amount_paid <= total_amount in
\* every reachable state of an Order.
C3_OutstandingNeverNegative ==
    \A o \in DOMAIN orders :
        /\ orders[o].amount_paid <= orders[o].total_amount
        /\ amount_outstanding(orders[o]) >= 0

\* The OrderPayment rows a step inserts.
Recorded == { p \in DOMAIN payments' : p \notin DOMAIN payments }

\* C4: a payment with amount <= 0, or one that takes amount_paid above
\* total_amount, is refused: no step records such an OrderPayment.
C4_BadPaymentRefused ==
    [][ \A p \in Recorded :
            LET a == payments'[p].amount
                o == orders[payments'[p].order]
            IN  /\ a > 0
                /\ o.amount_paid + a <= o.total_amount ]_vars

\* C5: recording a payment leaves the Order with amount_paid grown by the
\* payment and payment_status 'paid' when nothing is outstanding, 'partial'
\* when 0 < amount_paid < total_amount (100.00 with 40.00 then 60.00:
\* pending, partial, paid; outstanding 100.00, 60.00, 0.00).
C5_PaymentStatusFollowsPayments ==
    [][ \A p \in Recorded :
            LET a    == payments'[p].amount
                pk   == payments'[p].order
                paid == orders[pk].amount_paid + a
                tot  == orders[pk].total_amount
            IN  (a > 0 /\ paid <= tot) =>
                  /\ amount_outstanding(orders'[pk]) = tot - paid
                  /\ (tot - paid = 0) => orders'[pk].payment_status = "paid"
                  /\ (0 < paid /\ paid < tot) => orders'[pk].payment_status = "partial" ]_vars

RECURSIVE SumAmounts(_)
SumAmounts(ps) ==
    IF ps = {} THEN 0
    ELSE LET p == CHOOSE q \in ps : TRUE
         IN  payments[p].amount + SumAmounts(ps \ {p})

\* C6: the amounts of an Order's OrderPayment rows add up to its amount_paid.
C6_PaymentsSumToAmountPaid ==
    \A o \in DOMAIN orders :
        SumAmounts({ p \in DOMAIN payments : payments[p].order = o }) = orders[o].amount_paid

\* The forward pipeline of order_status: ORDER_STATUS_CHOICES up to completed.
OrderPipeline == SubSeq(ORDER_STATUS_CHOICES, 1, 12)

Successor(pipeline, a, b) ==
    \E k \in 1..(Len(pipeline) - 1) : pipeline[k] = a /\ pipeline[k + 1] = b

LegalOrderStep(a, b) ==
    \/ Successor(OrderPipeline, a, b)
    \/ b \in {"cancelled", "on_hold"} /\ a \notin {"completed", "cancelled"}
    \/ a = "on_hold" /\ b \in Range(OrderPipeline)

\* C7: order_status changes only to the next status of the pipeline, to
\* cancelled or on_hold from a non-terminal status, or from on_hold back into
\* the pipeline; every other assignment leaves it unchanged.
C7_OrderStatusMovesLegally ==
    [][ \A o \in DOMAIN orders \cap DOMAIN orders' :
            orders'[o].order_status # orders[o].order_status =>
                LegalOrderStep(orders[o].order_status, orders'[o].order_status) ]_vars

\* C8: completed_at is set exactly when order_status is completed.
C8_CompletedAtIffCompleted ==
    \A o \in DOMAIN orders :
        (orders[o].completed_at # NULL) <=> (orders[o].order_status = "completed")

\* C9: no completed Order has an item outside a terminal stage.
C9_CompletedOrderHasTerminalItems ==
    \A i \in DOMAIN items :
        orders[items[i].order].order_status = "completed" =>
            items[i].current_stage \in {"picked_up", "damaged"}

\* The forward pipeline of current_stage: received ... picked_up, with
\* qc_failed as the other outcome of in_qc.
ItemPipeline ==
    SubSeq(ITEM_STATUS_CHOICES, 1, 13) \o SubSeq(ITEM_STATUS_CHOICES, 15, 21)

LegalItemStep(a, b) ==
    \/ Successor(ItemPipeline, a, b)
    \/ a = "in_qc" /\ b = "qc_failed"
    \/ a = "qc_failed" /\ b \in {"returned_to_wash", "returned_to_dry", "returned_to_iron"}
    \/ a = "returned_to_wash" /\ b \in {"awaiting_wash", "in_washing"}
    \/ a = "returned_to_dry" /\ b \in {"awaiting_dry", "in_drying"}
    \/ a = "returned_to_iron" /\ b \in {"awaiting_iron", "in_ironing"}
    \/ b = "damaged"

\* C10: current_stage changes only to the adjacent forward stage, along a
\* defect return, or to damaged; a skip such as in_washing to in_ironing
\* leaves it unchanged.
C10_ItemStageMovesLegally ==
    [][ \A i \in DOMAIN items \cap DOMAIN items' :
            items'[i].current_stage # items[i].current_stage =>
                LegalItemStep(items[i].current_stage, items'[i].current_stage) ]_vars

\* C11: from qc_failed an item goes on to returned_to_wash, returned_to_dry or
\* returned_to_iron, and never directly to picked_up.
C11_QcFailedNeverPickedUp ==
    [][ \A i \in DOMAIN items \cap DOMAIN items' :
            items[i].current_stage = "qc_failed" =>
                items'[i].current_stage # "picked_up" ]_vars

\* C12: damaged is terminal: an item whose current_stage is damaged keeps it
\* under every later operation.
C12_DamagedIsTerminal ==
    [][ \A i \in DOMAIN items \cap DOMAIN items' :
            items[i].current_stage = "damaged" =>
                items'[i].current_stage = "damaged" ]_vars

\* C13: of two advance_item calls that read the same current stage of an item
\* and target different stages, one is refused: a submitted stage change is
\* written only if the item's stage is still the one the caller read.
C13_StaleStageWriteRefused ==
    [][ \A r \in 1..MaxRequests :
            (requests[r].pc = "form" /\ requests'[r].pc = "idle"
               /\ requests[r].pk \in DOMAIN items
               /\ items'[requests[r].pk].current_stage # items[requests[r].pk].current_stage)
            => items[requests[r].pk].current_stage = requests[r].seen.current_stage ]_vars

\* C14: every LaundryItem on a DispatchRequest has the DispatchRequest's
\* organization (a dispatch over items of another Organization is refused).
C14_DispatchItemsOfOneTenant ==
    \A d \in DOMAIN dispatches :
        \A i \in dispatches[d].items : items[i].organization = dispatches[d].organization

ActiveDispatchesOf(i) ==
    { d \in DOMAIN dispatches :
          i \in dispatches[d].items /\ dispatches[d].status \in {"pending", "accepted", "in_transit"} }

\* C15: every LaundryItem is on at most one DispatchRequest whose status is
\* pending, accepted or in_transit.
C15_OneActiveDispatchPerItem ==
    \A i \in DOMAIN items : Cardinality(ActiveDispatchesOf(i)) <= 1

LegalDispatchStep(a, b) ==
    \/ a = "pending" /\ b = "accepted"
    \/ a = "accepted" /\ b = "in_transit"
    \/ a = "in_transit" /\ b = "completed"
    \/ b = "cancelled"

\* C16: a DispatchRequest's status changes only along pending, accepted,
\* in_transit, completed, or to cancelled.
C16_DispatchStatusMovesLegally ==
    [][ \A d \in DOMAIN dispatches \cap DOMAIN dispatches' :
            dispatches'[d].status # dispatches[d].status =>
                LegalDispatchStep(dispatches[d].status, dispatches'[d].status) ]_vars

\* C17: accepted_at is set only on a DispatchRequest that has reached accepted,
\* completed_at only on a completed one; a pending one has neither.
C17_DispatchTimestampsFollowStatus ==
    \A d \in DOMAIN dispatches :
        /\ dispatches[d].accepted_at # NULL => dispatches[d].status # "pending"
        /\ dispatches[d].completed_at # NULL => dispatches[d].status = "completed"

\* The handover of the same item recorded next before h, if any.
EarlierHandovers(h) ==
    { g \in DOMAIN handovers :
          /\ handovers[g].item = handovers[h].item
          /\ handovers[g].handed_over_at < handovers[h].handed_over_at }

Previous(h) ==
    CHOOSE g \in EarlierHandovers(h) :
        \A k \in EarlierHandovers(h) : handovers[k].handed_over_at <= handovers[g].handed_over_at

\* C18: custody chain continuity: a handover's from_stage is the to_stage of
\* the handover of the same item recorded just before it.
C18_CustodyChainContinuous ==
    \A h \in DOMAIN handovers :
        EarlierHandovers(h) # {} => handovers[h].from_stage = handovers[Previous(h)].to_stage

\* C19: from_stage is null only on the first handover recorded for an item.
C19_NullFromStageOnlyFirst ==
    \A h \in DOMAIN handovers :
        handovers[h].from_stage = None => EarlierHandovers(h) = {}

\* C20: on every DefectReport resolved_flag, resolved_by, resolved_at and
\* resolution_notes are set together or not at all.
C20_ResolutionFieldsTogether ==
    \A d \in DOMAIN defects :
        /\ defects[d].resolved_flag <=> (defects[d].resolved_by # NULL)
        /\ defects[d].resolved_flag <=> (defects[d].resolved_at # NULL)
        /\ defects[d].resolved_flag <=> (defects[d].resolution_notes # None)

\* C21: tenant scoping: every scoped record carries the organization of the
\* records it references: a LaundryItem its Order's, an Order its Outlet's, an
\* OrderPayment its Order's, an ItemHandover and a DefectReport their item's.
C21_TenantScoping ==
    /\ \A i \in DOMAIN items : items[i].organization = orders[items[i].order].organization
    /\ \A o \in DOMAIN orders :
           orders[o].outlet # NULL =>
               outlets[orders[o].outlet].organization = orders[o].organization
    /\ \A p \in DOMAIN payments :
           payments[p].organization = orders[payments[p].order].organization
    /\ \A h \in DOMAIN handovers :
           handovers[h].organization = items[handovers[h].item].organization
    /\ \A d \in DOMAIN defects :
           defects[d].organization = items[defects[d].item].organization

\* A step that carries a request the specification calls invalid: an item's
\* stage or a dispatch's status moved by an illegal step, or an item or a
\* dispatch written with the organization of another tenant's record.
InvalidRequest ==
    \/ \E i \in DOMAIN items \cap DOMAIN items' :
           /\ items'[i].current_stage # items[i].current_stage
           /\ ~ LegalItemStep(items[i].current_stage, items'[i].current_stage)
    \/ \E d \in DOMAIN dispatches \cap DOMAIN dispatches' :
           /\ dispatches'[d].status # dispatches[d].status
           /\ ~ LegalDispatchStep(dispatches[d].status, dispatches'[d].status)
    \/ \E d \in DOMAIN dispatches' \ DOMAIN dispatches :
           \E i \in dispatches'[d].items :
               items'[i].organization # dispatches'[d].organization
    \/ \E i \in DOMAIN items' \ DOMAIN items :
           items'[i].organization # orders'[items'[i].order].organization

\* C22: all-or-nothing: a request that is an invalid transition or a tenant
\* mismatch changes no field of any Order, LaundryItem, DispatchRequest or
\* related record.
C22_InvalidRequestChangesNothing ==
    [][ InvalidRequest =>
            UNCHANGED << orders, items, payments, dispatches, handovers, defects >> ]_vars

\* C23: bag_number and invoice_number are unique per Organization: no two
\* Orders of one Organization share a bag_number or share an invoice_number.
C23_NumbersUniquePerOrganization ==
    \A o, q \in DOMAIN orders :
        (o # q /\ orders[o].organization = orders[q].organization) =>
            /\ orders[o].bag_number # orders[q].bag_number
            /\ orders[o].invoice_number # orders[q].invoice_number

\* Two Orders of different Organizations using the same bag and invoice number.
C23_Witness ==
    \E o, q \in DOMAIN orders :
        /\ orders[o].organization # orders[q].organization
        /\ orders[o].bag_number = orders[q].bag_number
        /\ orders[o].invoice_number = orders[q].invoice_number

\* The fields of a CustomerProfile that are missing for its payment_method or
\* filled in although they belong to another method.
OffendingProfileFields(row) ==
    LET card == { "card_number", "expiry_date", "cvc" }
        mobile == { "mobile_money_network", "mobile_money_number" }
        set == { k \in card \cup mobile : Truthy(row[k]) }
    IN  IF row.payment_method = "card" THEN (card \ set) \cup (mobile \cap set)
        ELSE IF row.payment_method = "mobile_money" THEN (mobile \ set) \cup (card \cap set)
        ELSE set

\* The same for a PaymentDetail and its payment_type.
OffendingDetailFields(row) ==
    LET bank == { "bank_name", "account_number", "branch" }
        mobile == { "mobile_network", "merchant_number", "merchant_id" }
        set == { k \in bank \cup mobile : Truthy(row[k]) }
    IN  IF row.payment_type = "bank" THEN (bank \ set) \cup (mobile \cap set)
        ELSE (mobile \ set) \cup (bank \cap set)

\* C24: whenever CustomerProfile.clean or PaymentDetail.clean rejects a
\* record, the error names the field that is missing or wrongly populated.
C24_ErrorNamesOffendingField ==
    /\ (response.view = "CustomerProfile" /\ response.errors # {}) =>
           response.errors \subseteq OffendingProfileFields(response.form)
    /\ (response.view = "PaymentDetail" /\ response.errors # {}) =>
           response.errors \subseteq OffendingDetailFields(response.form)

\* C25: CustomerProfile.clean raises whenever a card field is set with a
\* method other than card, a mobile money field is set with a method other
\* than mobile_money, or the selected method's own fields are incomplete.
C25_ProfileFieldsMatchMethod ==
    response.view = "CustomerProfile" =>
        (OffendingProfileFields(response.form) # {} => response.errors # {})

\* A PaymentDetail whose fields match its payment_type: the three of the type
\* all set, the three of the other type all empty.
FieldsMatchType(row) ==
    LET bank == Truthy(row.bank_name) /\ Truthy(row.account_number) /\ Truthy(row.branch)
        mobile == Truthy(row.mobile_network) /\ Truthy(row.merchant_number)
                      /\ Truthy(row.merchant_id)
        no_bank == ~ Truthy(row.bank_name) /\ ~ Truthy(row.account_number)
                       /\ ~ Truthy(row.branch)
        no_mobile == ~ Truthy(row.mobile_network) /\ ~ Truthy(row.merchant_number)
                         /\ ~ Truthy(row.merchant_id)
    IN  \/ row.payment_type = "bank" /\ bank /\ no_mobile
        \/ row.payment_type = "mobile_money" /\ mobile /\ no_bank

\* C26: PaymentDetail.clean accepts a record exactly when its fields match
\* its payment_type, so every saved PaymentDetail matches too.
C26_DetailAcceptedIffFieldsMatch ==
    /\ response.view = "PaymentDetail" =>
           (response.errors = {} <=> FieldsMatchType(response.form))
    /\ \A p \in DOMAIN payment_details : FieldsMatchType(payment_details[p])

\* A bank PaymentDetail is saved and a later change of it was refused.
C26_Witness ==
    /\ \E p \in DOMAIN payment_details : payment_details[p].payment_type = "bank"
    /\ response.view = "PaymentDetail"
    /\ response.errors # {}
    /\ response.form.payment_type = "mobile_money"

\* The minutes worked in a shift that ends after it starts, the break taken
\* off, never below zero.
MinutesWorked(row) ==
    LET shift == MinuteOfDay(row.end_shift) - MinuteOfDay(row.start_shift)
        break == IF row.break_duration_minutes = Unset THEN 0 ELSE row.break_duration_minutes
    IN  IF shift - break < 0 THEN 0 ELSE shift - break

\* C27: Employee.clean raises exactly when both shifts are set and end_shift
\* is not strictly after start_shift; so for every Employee that passed clean
\* total_hours_per_day never takes its crossing-midnight branch and reports
\* the shift less the break as hours and minutes, or None when a shift is unset.
C27_ShiftHoursOfCleanEmployee ==
    /\ response.view = "Employee" =>
           (response.errors # {} <=>
                /\ response.form.start_shift # NoTime
                /\ response.form.end_shift # NoTime
                /\ SecondOfDay(response.form.end_shift)
                       <= SecondOfDay(response.form.start_shift))
    /\ \A e \in DOMAIN employees :
           IF employees[e].start_shift # NoTime /\ employees[e].end_shift # NoTime
           THEN /\ ~ crosses_midnight(employees[e])
                /\ total_hours_per_day(employees[e])
                       = HoursAndMinutes(MinutesWorked(employees[e]))
           ELSE total_hours_per_day(employees[e]) = None

\* C28: create_user saves no user when email is empty; create_superuser saves
\* no user when is_staff or is_superuser is given as anything other than
\* True, and every user it creates has is_staff, is_superuser and is_active
\* all True.
C28_SuperuserFlagsAllTrue ==
    [][ \A email \in EmailsTyped, username \in UsernamesTyped, extra_fields \in ExtraFieldsTyped :
            /\ create_user(email, username, extra_fields) => email # NoEmail
            /\ create_superuser(email, username, extra_fields) =>
                   /\ email # NoEmail
                   /\ "is_staff" \in DOMAIN extra_fields => extra_fields.is_staff
                   /\ "is_superuser" \in DOMAIN extra_fields => extra_fields.is_superuser
                   /\ users'[seq'.users].is_staff
                   /\ users'[seq'.users].is_superuser
                   /\ users'[seq'.users].is_active ]_vars

\* Every LaundryItem and OrderPayment references an existing Order, every
\* Order an existing Organization and, where set, an existing Outlet and User.
ReferencesExist ==
    /\ \A i \in DOMAIN items : items[i].order \in DOMAIN orders
    /\ \A p \in DOMAIN payments : payments[p].order \in DOMAIN orders
    /\ \A o \in DOMAIN orders :
           /\ orders[o].organization \in DOMAIN organizations
           /\ orders[o].outlet \in {NULL} \cup DOMAIN outlets
           /\ orders[o].customer \in {NULL} \cup DOMAIN users

\* C29: referential integrity under deletion: after any creations and
\* deletions every LaundryItem and OrderPayment references an existing Order
\* and every Order an existing Organization; and deleting an Outlet or a
\* customer User alone keeps every Order, with its outlet or customer null.
C29_ReferentialIntegrity ==
    [][ /\ ReferencesExist'
        /\ (DOMAIN organizations' = DOMAIN organizations
                /\ (DOMAIN outlets' # DOMAIN outlets \/ DOMAIN users' # DOMAIN users)) =>
               /\ DOMAIN orders' = DOMAIN orders
               /\ \A o \in DOMAIN orders :
                      /\ orders[o].outlet \notin DOMAIN outlets' => orders'[o].outlet = NULL
                      /\ orders[o].customer \notin DOMAIN users' => orders'[o].customer = NULL
      ]_vars

\* An Organization and its Order are gone, and the other tenant's Order has
\* outlived its Outlet and its customer.
C29_Witness ==
    /\ seq.organizations > Cardinality(DOMAIN organizations)
    /\ seq.orders > Cardinality(DOMAIN orders)
    /\ \E o \in DOMAIN orders : orders[o].outlet = NULL /\ orders[o].customer = NULL

\* C30: no update of a LaundryItem is lost.  When an editor's save is written,
\* a column the editor did not edit (the submitted value is the one loaded)
\* keeps the value stored at that moment, so that the changes two interleaved
\* saves make to different columns are both in the final row, and amount is
\* unit_price * quantity.
C30_NoLostUpdate ==
    [][ \A r \in 1..MaxRequests :
            (requests[r].pc = "form" /\ requests'[r].pc = "idle"
               /\ requests[r].pk \in DOMAIN items)
            => LET pk   == requests[r].pk
                   seen == requests[r].seen
               IN  /\ items'[pk].quantity = seen.quantity =>
                          items'[pk].quantity = items[pk].quantity
                   /\ items'[pk].unit_price = seen.unit_price =>
                          items'[pk].unit_price = items[pk].unit_price
                   /\ items'[pk].current_stage = seen.current_stage =>
                          items'[pk].current_stage = items[pk].current_stage
                   /\ items'[pk].amount = items'[pk].unit_price * items'[pk].quantity
      ]_vars

====
